---- MODULE Spec2Model ----
(***************************************************************************)
(* Blue-green release orchestrator (deploy.sh).                            *)
(*                                                                         *)
(* The script drives three external collaborators, modelled as the shared  *)
(* state: the container platform (per stack: its networks, its running     *)
(* services, its volumes) and the reverse proxy (the stack public traffic  *)
(* is routed to).  An invocation of the script is a process; each action   *)
(* is one external command of the script together with the shell control   *)
(* flow around it (set -e, `if !` contexts, `|| true`).                    *)
(*                                                                         *)
(* The proxy's target is changed by a successful switch_traffic only; the  *)
(* platform answers the listing queries (network ls, ps); every other      *)
(* collaborator call may succeed or fail.                                  *)
(***************************************************************************)
EXTENDS Integers, Sequences, FiniteSets, TLC

\* deploy.sh:12-14
BLUE_STACK == "facial-recognition-blue"
GREEN_STACK == "facial-recognition-green"
Stacks == {BLUE_STACK, GREEN_STACK}
NoStack == ""

\* The services of a stack that the script addresses by name: app
\* (deploy.sh:131), nginx (deploy.sh:150) and postgres (deploy.sh:171).
Services == {"app", "nginx", "postgres"}

\* deploy.sh:109
max_attempts == 60

Procs == {1, 2}
\* Invocations that run one at a time use a single shell.
SeqProcs == {1}

Commands == {"deploy", "status", "rollback", "cleanup", "other"}

\* The script's first argument when there is none (unset or empty).
NoArg == ""

VARIABLES
    networks,   \* stacks for which `docker network ls` lists a network
    running,    \* running[s]: services of stack s that have a container up
    volumes,    \* stacks whose named volumes exist
    routing,    \* the stack the reverse proxy sends public traffic to
    inv,        \* inv[p]: the shell state of invocation p
    demo,       \* the state held by the demo page's reducer
    ui          \* the demo page: selected flow, camera, captures in flight

vars == <<networks, running, volumes, routing, inv, demo, ui>>
world == <<networks, running, volumes, routing>>

\* The demo page of the web frontend, which the script never touches.
page == <<demo, ui>>

----------------------------------------------------------------------------
(* The demo state machine of the frontend (hooks/useDemoStateMachine). *)

Null == "null"

DEMO_STATES ==
    {"IDLE", "SCANNING", "PROCESSING", "EXTRACTING_FEATURES", "ENCRYPTING",
     "STORING", "MATCHING", "ACCESS_GRANTED", "ACCESS_DENIED", "SUCCESS", "ERROR"}

DEMO_ACTIONS ==
    {"START_SCAN", "SCAN_COMPLETE", "START_PROCESSING", "PROCESSING_COMPLETE",
     "START_FEATURE_EXTRACTION", "FEATURE_EXTRACTION_COMPLETE", "START_ENCRYPTION",
     "ENCRYPTION_COMPLETE", "START_STORING", "STORING_COMPLETE", "START_MATCHING",
     "MATCH_SUCCESS", "MATCH_FAILED", "SET_ERROR", "RESET", "SET_PROGRESS",
     "SET_EMBEDDING", "SET_CIPHERTEXT"}

DEMO_FLOWS == {"SETUP", "ACCESS"}

\* The per-stage progress and the timings (Date.now) are left out.
initialState ==
    [currentState |-> "IDLE", flow |-> Null, progress |-> 0,
     embedding |-> Null, ciphertext |-> Null, matchConfidence |-> Null,
     error |-> Null, templateId |-> Null]

\* part_003:70-255: demoReducer(state, action), action = {type, payload}.
\* A payload that is absent is Null.
demoReducer(state, type, payload) ==
    CASE type = "START_SCAN" ->
           [state EXCEPT !.currentState = "SCANNING",
                         !.flow = IF payload = Null THEN "SETUP" ELSE payload,
                         !.progress = 5, !.error = Null]
      [] type = "SCAN_COMPLETE" ->
           [state EXCEPT !.currentState = "PROCESSING", !.progress = 15]
      [] type = "START_PROCESSING" ->
           [state EXCEPT !.currentState = "PROCESSING", !.progress = 20]
      [] type = "PROCESSING_COMPLETE" ->
           [state EXCEPT !.progress = 30]
      [] type = "START_FEATURE_EXTRACTION" ->
           [state EXCEPT !.currentState = "EXTRACTING_FEATURES", !.progress = 35]
      [] type = "FEATURE_EXTRACTION_COMPLETE" ->
           [state EXCEPT !.progress = 50, !.embedding = payload]
      [] type = "SET_EMBEDDING" ->
           [state EXCEPT !.embedding = payload]
      [] type = "START_ENCRYPTION" ->
           [state EXCEPT !.currentState = "ENCRYPTING", !.progress = 55]
      [] type = "ENCRYPTION_COMPLETE" ->
           [state EXCEPT !.progress = 75, !.ciphertext = payload]
      [] type = "SET_CIPHERTEXT" ->
           [state EXCEPT !.ciphertext = payload]
      [] type = "START_STORING" ->
           [state EXCEPT !.currentState = "STORING", !.progress = 80]
      [] type = "STORING_COMPLETE" ->
           [state EXCEPT !.currentState = "SUCCESS", !.progress = 100,
                         !.templateId = payload]
      [] type = "START_MATCHING" ->
           [state EXCEPT !.currentState = "MATCHING", !.progress = 80]
      [] type = "MATCH_SUCCESS" ->
           [state EXCEPT !.currentState = "ACCESS_GRANTED", !.progress = 100,
                         !.matchConfidence = payload]
      [] type = "MATCH_FAILED" ->
           [state EXCEPT !.currentState = "ACCESS_DENIED", !.progress = 100,
                         !.matchConfidence = payload]
      [] type = "SET_PROGRESS" ->
           [state EXCEPT !.progress = IF payload = Null THEN @ ELSE payload]
      [] type = "SET_ERROR" ->
           [state EXCEPT !.currentState = "ERROR", !.error = payload]
      [] type = "RESET" -> initialState
      [] OTHER -> state

\* Captures whose asynchronous pipeline (handleCapture) can be in flight.
Pipes == {1, 2}

NoPipe == [pc |-> "none", flow |-> Null]

\* DemoMode.jsx:547-552: the component's state when it is mounted.
InitialUi ==
    [selectedFlow |-> Null, showCamera |-> FALSE, pipes |-> [k \in Pipes |-> NoPipe]]

----------------------------------------------------------------------------
NoProbe == [slot |-> NoStack, healthyServices |-> 0, totalServices |-> 0,
            passed |-> FALSE, made |-> FALSE]

Snapshot == [networks |-> networks, running |-> running,
             volumes |-> volumes, routing |-> routing]

Idle == [arg |-> "none", cmd |-> "none", pc |-> "idle", exit |-> -1,
         COMPOSE_PROJECT_NAME |-> NoStack,
         active_stack |-> NoStack, inactive_stack |-> NoStack,
         current_stack |-> NoStack, previous_stack |-> NoStack,
         attempt |-> 0, probe |-> NoProbe, backup |-> NoStack,
         provisioned |-> TRUE, migrated |-> FALSE,
         overlapped |-> FALSE,
         log |-> <<>>,
         pre |-> [networks |-> {}, running |-> [s \in Stacks |-> {}],
                  volumes |-> {}, routing |-> NoStack]]

Init ==
    /\ networks = {}
    /\ running = [s \in Stacks |-> {}]
    /\ volumes = {}
    /\ routing = NoStack
    /\ inv = [p \in Procs |-> Idle]
    /\ demo = initialState
    /\ ui = InitialUi

\* Shell helpers: move invocation p on, logging the step it just took.
Goto(p, label, event) ==
    [inv[p] EXCEPT !.pc = label, !.log = Append(@, event)]

\* The script ends with the given exit status.
Exit(p, code, event) ==
    [inv[p] EXCEPT !.pc = "done", !.exit = code, !.log = Append(@, event)]

\* The events of a log, and the latest of them.
Range(q) == {q[i] : i \in DOMAIN q}
Last(q) == IF q = <<>> THEN "" ELSE q[Len(q)]

----------------------------------------------------------------------------
\* deploy.sh:70-79
get_active_stack ==
    IF BLUE_STACK \in networks THEN BLUE_STACK
    ELSE IF GREEN_STACK \in networks THEN GREEN_STACK
    ELSE NoStack

\* Variant: the test is made against the empty string instead of the blue stack.
get_inactive_stack_empty_test ==
    IF get_active_stack = NoStack THEN GREEN_STACK ELSE BLUE_STACK

\* deploy.sh:82-89
get_inactive_stack ==
    IF get_active_stack = BLUE_STACK THEN GREEN_STACK ELSE BLUE_STACK

----------------------------------------------------------------------------
\* Variant: the word is taken as given, with no default.
Command_no_default(arg) == arg

\* deploy.sh:275: "${1:-deploy}", the word the case statement looks at.
Command(arg) == IF arg = NoArg THEN "deploy" ELSE arg

\* deploy.sh:275-303: the case statement of the main script.
FirstStep(c) ==
    CASE c = "deploy" -> "check_prerequisites"
      [] c = "rollback" -> "check_prerequisites"
      [] c = "status" -> "status"
      [] c = "cleanup" -> "cleanup_blue"
      [] OTHER -> "usage"

Running(q) == inv[q].pc \notin {"idle", "done"}

\* A new process runs the script with one of the given arguments.  Nothing
\* makes it wait for a process that is still running; `overlapped` records,
\* for the properties, that two runs were under way at the same time.
InvokeOf(p, args) ==
    /\ inv[p].pc \in {"idle", "done"}
    /\ \E a \in args :
        inv' = [q \in Procs |->
                  IF q = p
                  THEN [Idle EXCEPT !.arg = a, !.cmd = Command(a),
                                    !.pc = FirstStep(Command(a)), !.pre = Snapshot,
                                    !.overlapped = \E r \in Procs \ {p} : Running(r)]
                  ELSE IF Running(q) THEN [inv[q] EXCEPT !.overlapped = TRUE]
                  ELSE inv[q]]
    /\ UNCHANGED <<world, page>>

\* The script is called with a command word.
Invoke(p) == InvokeOf(p, Commands)

\* The script is called with no argument.
InvokeBare(p) == InvokeOf(p, {NoArg})

\* deploy.sh:295-302
Usage(p) ==
    /\ inv[p].pc = "usage"
    /\ inv' = [inv EXCEPT ![p] = Exit(p, 1, "usage")]
    /\ UNCHANGED <<world, page>>

\* Variant: a missing prerequisite is reported but the script goes on.
check_prerequisites_report_only(p) ==
    /\ inv[p].pc = "check_prerequisites"
    /\ \E ok \in BOOLEAN :
        inv' = [inv EXCEPT ![p] =
                  Goto(p, IF inv[p].cmd = "deploy" THEN "deploy_active"
                          ELSE "rollback_cmd_active",
                       IF ok THEN "prerequisites_ok" ELSE "prerequisites_missing")]
    /\ UNCHANGED <<world, page>>

\* deploy.sh:42-67: any missing tool or file ends the script with status 1.
check_prerequisites(p) ==
    /\ inv[p].pc = "check_prerequisites"
    /\ \E ok \in BOOLEAN :
        inv' = [inv EXCEPT ![p] =
                  IF ~ok THEN Exit(p, 1, "prerequisites_missing")
                  ELSE IF inv[p].cmd = "deploy" THEN Goto(p, "deploy_active", "prerequisites_ok")
                  ELSE Goto(p, "rollback_cmd_active", "prerequisites_ok")]
    /\ UNCHANGED <<world, page>>

----------------------------------------------------------------------------
(* The container platform. *)

StackState(s) ==
    [running |-> running[s], net |-> s \in networks, vol |-> s \in volumes]

SetStack(s, r) ==
    /\ running' = [running EXCEPT ![s] = r.running]
    /\ networks' = IF r.net THEN networks \cup {s} ELSE networks \ {s}
    /\ volumes' = IF r.vol THEN volumes \cup {s} ELSE volumes \ {s}

\* Services start in dependency order: the database, the application behind
\* it, the proxy in front (README.prod.md, Architecture Overview and Networking).
StartOrder == <<"postgres", "app", "nginx">>
Started(n) == {StartOrder[i] : i \in 1..n}

\* `docker-compose up -d` for project s: on success the whole declared service
\* set runs and the project's networks and volumes exist; a rejected start
\* stops anywhere on the way and leaves what it had created.
UpOutcomes(s, ok) ==
    IF ok THEN {[running |-> Services, net |-> TRUE, vol |-> TRUE]}
    ELSE {r \in [running : {Started(n) : n \in 0..Len(StartOrder)},
                 net : BOOLEAN, vol : BOOLEAN] :
            /\ running[s] \subseteq r.running
            /\ (s \in networks \/ r.running # {}) => r.net
            /\ r.vol = (s \in volumes \/ r.net)}

\* `docker-compose down [--volumes]` for project s: containers are removed
\* first, then the networks, then (with --volumes) the volumes; a failure
\* stops anywhere on the way.
DownOutcomes(s, withVolumes, ok) ==
    IF ok THEN {[running |-> {}, net |-> FALSE,
                 vol |-> IF withVolumes THEN FALSE ELSE s \in volumes]}
    ELSE {StackState(s),
          [StackState(s) EXCEPT !.running = {}]}
         \cup (IF withVolumes
               THEN {[StackState(s) EXCEPT !.running = {}, !.net = FALSE]}
               ELSE {})

\* `docker-compose exec nginx nginx -s reload` in project proj: needs the
\* project's nginx container to be up.  With COMPOSE_PROJECT_NAME unset the
\* project is the directory's default one, about which nothing is known.
ReloadCanSucceed(proj) ==
    proj = NoStack \/ "nginx" \in running[proj]

\* `curl -f http://localhost/health`: somebody has to listen on the public port.
CurlCanSucceed ==
    \E s \in Stacks : "nginx" \in running[s]

----------------------------------------------------------------------------
(* The status column of `docker-compose ps`, "(healthy)", "(unhealthy)" or  *)
(* "(health: starting)", and grep -q "healthy" on it.                      *)

Status == {"healthy", "unhealthy", "starting"}

Chars(w) ==
    CASE w = "healthy" -> <<"h","e","a","l","t","h","y">>
      [] w = "unhealthy" -> <<"u","n","h","e","a","l","t","h","y">>
      [] w = "starting" -> <<"h","e","a","l","t","h",":"," ","s","t","a","r","t","i","n","g">>

\* needle occurs in line
Grep(needle, line) ==
    \E i \in 1..(Len(line) - Len(needle) + 1) :
        SubSeq(line, i, i + Len(needle) - 1) = needle

\* deploy.sh:113: does `ps | grep -q "healthy"` succeed on these statuses
ProbePasses(st) ==
    \E x \in DOMAIN st : Grep(Chars("healthy"), Chars(st[x]))

HealthProbeResult(slot, st) ==
    [slot |-> slot,
     healthyServices |-> Cardinality({x \in DOMAIN st : st[x] = "healthy"}),
     totalServices |-> Cardinality(Services),
     passed |-> ProbePasses(st),
     made |-> TRUE]

----------------------------------------------------------------------------
(* deploy *)

\* deploy.sh:201
deploy_active(p) ==
    /\ inv[p].pc = "deploy_active"
    /\ inv' = [inv EXCEPT ![p] =
                 [Goto(p, "deploy_inactive", "discover")
                    EXCEPT !.active_stack = get_active_stack]]
    /\ UNCHANGED <<world, page>>

\* deploy.sh:202-210
deploy_inactive(p) ==
    /\ inv[p].pc = "deploy_inactive"
    /\ inv' = [inv EXCEPT ![p] =
                 [Goto(p, IF inv[p].active_stack # NoStack
                          THEN "create_backup" ELSE "pull", "discover_inactive")
                    EXCEPT !.inactive_stack = get_inactive_stack]]
    /\ UNCHANGED <<world, page>>

\* Variant: a failed dump ends the deployment.
create_backup_fatal(p) ==
    /\ inv[p].pc = "create_backup"
    /\ \E ok \in {b \in BOOLEAN : b => "postgres" \in running[BLUE_STACK]} :
        inv' = [inv EXCEPT ![p] =
                  IF ok THEN [Goto(p, "pull", "backup") EXCEPT !.backup = BLUE_STACK]
                  ELSE Exit(p, 1, "backup")]
    /\ UNCHANGED <<world, page>>

\* deploy.sh:167-177: the dump is taken from the blue stack's postgres
\* container; `|| true` hides a failed dump.
create_backup(p) ==
    /\ inv[p].pc = "create_backup"
    /\ \E ok \in {b \in BOOLEAN : b => "postgres" \in running[BLUE_STACK]} :
        inv' = [inv EXCEPT ![p] =
                  [Goto(p, "pull", "backup")
                     EXCEPT !.backup = IF ok THEN BLUE_STACK ELSE NoStack]]
    /\ UNCHANGED <<world, page>>

\* deploy.sh:92-101: deploy_to_stack runs as the condition of `if !`, where
\* set -e is off, so a failed pull does not end the function.
compose_pull(p) ==
    /\ inv[p].pc = "pull"
    /\ \E ok \in BOOLEAN :
        inv' = [inv EXCEPT ![p] =
                  [Goto(p, "up", "pull")
                     EXCEPT !.COMPOSE_PROJECT_NAME = inv[p].inactive_stack,
                            !.provisioned = ok]]
    /\ UNCHANGED <<world, page>>

\* deploy.sh:103-110: as for the pull, a failed `up -d` is not looked at.
compose_up(p) ==
    /\ inv[p].pc = "up"
    /\ \E ok \in BOOLEAN :
       \E r \in UpOutcomes(inv[p].COMPOSE_PROJECT_NAME, ok) :
        /\ SetStack(inv[p].COMPOSE_PROJECT_NAME, r)
        /\ inv' = [inv EXCEPT ![p] =
                     [Goto(p, "health_loop", "up")
                        EXCEPT !.attempt = 1, !.provisioned = @ /\ ok]]
    /\ UNCHANGED <<routing, page>>

\* Variant: the loop is left by `break` when the attempts run out.
WaitLoopStep_break_on_timeout(passed, attempt) ==
    IF passed \/ attempt = max_attempts THEN "break" ELSE "again"

\* Variant: the loop does not give up at the last attempt.
WaitLoopStep_no_limit(passed, attempt) ==
    IF passed THEN "break" ELSE "again"

\* deploy.sh:112-127: what one iteration of the wait loop does next.
WaitLoopStep(passed, attempt) ==
    IF passed THEN "break"
    ELSE IF attempt = max_attempts THEN "return 1"
    ELSE "again"

\* Variant: the return status of deploy_to_stack is not looked at.
DeployToStackReturned_ignored(p, status, event) ==
    Goto(p, "switch_traffic", event)

\* deploy.sh:213-219: deploy ends the script with status 1 when
\* deploy_to_stack returns nonzero, and goes on to the cutover otherwise.
DeployToStackReturned(p, status, event) ==
    IF status = 0 THEN Goto(p, "switch_traffic", event)
    ELSE Exit(p, 1, event)

\* deploy.sh:112-127: one iteration of the wait loop.  The platform reports a
\* status for each running service of the project.
health_poll(p) ==
    /\ inv[p].pc = "health_loop"
    /\ inv[p].attempt <= max_attempts
    /\ \E st \in [running[inv[p].COMPOSE_PROJECT_NAME] -> Status] :
        LET res == HealthProbeResult(inv[p].COMPOSE_PROJECT_NAME, st)
            todo == WaitLoopStep(res.passed, inv[p].attempt)
        IN  inv' = [inv EXCEPT ![p] =
                      CASE todo = "break" ->
                             [Goto(p, "migrate", "healthy") EXCEPT !.probe = res]
                        [] todo = "return 1" ->
                             [DeployToStackReturned(p, 1, "health_timeout")
                                EXCEPT !.probe = res]
                        [] OTHER ->
                             [inv[p] EXCEPT !.probe = res, !.attempt = @ + 1]]
    /\ UNCHANGED <<world, page>>

\* Variant: without `|| true` a failed migration makes deploy_to_stack return 1.
migrate_fatal(p) ==
    /\ inv[p].pc = "migrate"
    /\ \E ok \in {b \in BOOLEAN : b => "app" \in running[inv[p].COMPOSE_PROJECT_NAME]} :
        inv' = [inv EXCEPT ![p] =
                  [(IF ok THEN Goto(p, "health_check", "migrate")
                    ELSE DeployToStackReturned(p, 1, "migrate"))
                     EXCEPT !.migrated = ok]]
    /\ UNCHANGED <<world, page>>

\* deploy.sh:129-131: `|| true`
migrate(p) ==
    /\ inv[p].pc = "migrate"
    /\ \E ok \in {b \in BOOLEAN : b => "app" \in running[inv[p].COMPOSE_PROJECT_NAME]} :
        inv' = [inv EXCEPT ![p] =
                  [Goto(p, "health_check", "migrate") EXCEPT !.migrated = ok]]
    /\ UNCHANGED <<world, page>>

\* deploy.sh:133-141; the function's local `attempt` ends here.
health_check(p) ==
    /\ inv[p].pc = "health_check"
    /\ \E ok \in {b \in BOOLEAN : b => CurlCanSucceed} :
        inv' = [inv EXCEPT ![p] =
                  [(IF ok THEN DeployToStackReturned(p, 0, "health_check_ok")
                    ELSE DeployToStackReturned(p, 1, "health_check_failed"))
                     EXCEPT !.attempt = 0]]
    /\ UNCHANGED <<world, page>>

\* Variant: after a failed reload the cutover is tried again.
AfterCutover_retry(ok) ==
    IF ok THEN "stabilize" ELSE "switch_traffic"

\* deploy.sh:219-223: under set -e a failed switch_traffic ends the script.
AfterCutover(ok) ==
    IF ok THEN "stabilize" ELSE "done"

\* deploy.sh:144-153, called at 219 under set -e.
switch_traffic(p) ==
    /\ inv[p].pc = "switch_traffic"
    /\ \E ok \in {b \in BOOLEAN : b => ReloadCanSucceed(inv[p].COMPOSE_PROJECT_NAME)} :
        /\ routing' = IF ok THEN inv[p].inactive_stack ELSE routing
        /\ inv' = [inv EXCEPT ![p] =
                     LET event == IF ok THEN "cutover" ELSE "cutover_failed"
                     IN  IF AfterCutover(ok) = "done" THEN Exit(p, 1, event)
                         ELSE Goto(p, AfterCutover(ok), event)]
    /\ UNCHANGED <<networks, running, volumes, page>>

\* deploy.sh:221-223
stabilize(p) ==
    /\ inv[p].pc = "stabilize"
    /\ inv' = [inv EXCEPT ![p] = Goto(p, "verify", "stabilize")]
    /\ UNCHANGED <<world, page>>

\* Variant: the old stack is cleaned up whatever the probe says.
AfterVerify_always_cleanup(ok, active) ==
    IF active # NoStack THEN "cleanup_old_stack"
    ELSE IF ok THEN "exit 0" ELSE "exit 1"

\* deploy.sh:226-243: where deploy goes after the verification probe.
AfterVerify(ok, active) ==
    IF ok THEN (IF active # NoStack THEN "cleanup_old_stack" ELSE "exit 0")
    ELSE (IF active # NoStack THEN "rollback" ELSE "exit 1")

\* deploy.sh:225-243
verify(p) ==
    /\ inv[p].pc = "verify"
    /\ \E ok \in {b \in BOOLEAN : b => CurlCanSucceed} :
        LET todo == AfterVerify(ok, inv[p].active_stack)
            event == IF ok THEN "verify_ok" ELSE "verify_failed"
        IN  inv' = [inv EXCEPT ![p] =
                      CASE todo = "cleanup_old_stack" -> Goto(p, "cleanup_old_stack", event)
                        [] todo = "exit 0" -> Exit(p, 0, event)
                        [] todo = "rollback" ->
                             [Goto(p, "rollback_switch", event)
                                EXCEPT !.current_stack = inv[p].inactive_stack,
                                       !.previous_stack = inv[p].active_stack]
                        [] OTHER -> Exit(p, 1, event)]
    /\ UNCHANGED <<world, page>>

\* Variant: the old stack is stopped but its volumes are kept.
cleanup_old_stack_keep_volumes(p) ==
    /\ inv[p].pc = "cleanup_old_stack"
    /\ \E ok \in BOOLEAN :
       \E r \in DownOutcomes(inv[p].active_stack, FALSE, ok) :
        /\ SetStack(inv[p].active_stack, r)
        /\ inv' = [inv EXCEPT ![p] =
                     [(IF ok THEN Exit(p, 0, "cleanup_old") ELSE Exit(p, 1, "cleanup_old_failed"))
                        EXCEPT !.COMPOSE_PROJECT_NAME = inv[p].active_stack]]
    /\ UNCHANGED <<routing, page>>

\* deploy.sh:156-164, called at 231 under set -e.
cleanup_old_stack(p) ==
    /\ inv[p].pc = "cleanup_old_stack"
    /\ \E ok \in BOOLEAN :
       \E r \in DownOutcomes(inv[p].active_stack, TRUE, ok) :
        /\ SetStack(inv[p].active_stack, r)
        /\ inv' = [inv EXCEPT ![p] =
                     [(IF ok THEN Exit(p, 0, "cleanup_old") ELSE Exit(p, 1, "cleanup_old_failed"))
                        EXCEPT !.COMPOSE_PROJECT_NAME = inv[p].active_stack]]
    /\ UNCHANGED <<routing, page>>

----------------------------------------------------------------------------
(* rollback *)

\* Variant: a failed restoration is reported but the command ends with status 0.
rollback_switch_failure_ignored(p) ==
    /\ inv[p].pc = "rollback_switch"
    /\ \E ok \in {b \in BOOLEAN : b => ReloadCanSucceed(inv[p].COMPOSE_PROJECT_NAME)} :
        /\ routing' = IF ok THEN inv[p].previous_stack ELSE routing
        /\ inv' = [inv EXCEPT ![p] =
                     IF ok THEN Goto(p, "rollback_down", "restore_traffic")
                     ELSE Exit(p, 0, "restore_traffic_failed")]
    /\ UNCHANGED <<networks, running, volumes, page>>

\* Variant: a failed restoration of traffic does not stop the rollback.
AfterRestore_tolerant(ok) ==
    "rollback_down"

\* deploy.sh:187-191: under set -e a failed switch_traffic ends the script
\* before the stack is stopped.
AfterRestore(ok) ==
    IF ok THEN "rollback_down" ELSE "done"

\* deploy.sh:180-187: switch_traffic "$previous_stack".  The reload runs in
\* the project COMPOSE_PROJECT_NAME names at that moment.
rollback_switch(p) ==
    /\ inv[p].pc = "rollback_switch"
    /\ \E ok \in {b \in BOOLEAN : b => ReloadCanSucceed(inv[p].COMPOSE_PROJECT_NAME)} :
        /\ routing' = IF ok THEN inv[p].previous_stack ELSE routing
        /\ inv' = [inv EXCEPT ![p] =
                     LET event == IF ok THEN "restore_traffic" ELSE "restore_traffic_failed"
                     IN  IF AfterRestore(ok) = "rollback_down"
                         THEN Goto(p, "rollback_down", event)
                         ELSE Exit(p, 1, event)]
    /\ UNCHANGED <<networks, running, volumes, page>>

\* Variant: rollback removes the stopped stack's volumes as well.
rollback_down_with_volumes(p) ==
    /\ inv[p].pc = "rollback_down"
    /\ \E ok \in BOOLEAN :
       \E r \in DownOutcomes(inv[p].current_stack, TRUE, ok) :
        /\ SetStack(inv[p].current_stack, r)
        /\ inv' = [inv EXCEPT ![p] =
                     [(IF ~ok THEN Exit(p, 1, "stop_failed")
                       ELSE IF inv[p].cmd = "deploy" THEN Exit(p, 1, "stop")
                       ELSE Exit(p, 0, "stop"))
                        EXCEPT !.COMPOSE_PROJECT_NAME = inv[p].current_stack]]
    /\ UNCHANGED <<routing, page>>

\* deploy.sh:189-194, then 242 (after deploy's rollback) or the end of the
\* script (after rollback_cmd).
rollback_down(p) ==
    /\ inv[p].pc = "rollback_down"
    /\ \E ok \in BOOLEAN :
       \E r \in DownOutcomes(inv[p].current_stack, FALSE, ok) :
        /\ SetStack(inv[p].current_stack, r)
        /\ inv' = [inv EXCEPT ![p] =
                     [(IF ~ok THEN Exit(p, 1, "stop_failed")
                       ELSE IF inv[p].cmd = "deploy" THEN Exit(p, 1, "stop")
                       ELSE Exit(p, 0, "stop"))
                        EXCEPT !.COMPOSE_PROJECT_NAME = inv[p].current_stack]]
    /\ UNCHANGED <<routing, page>>

\* Variant: the rollback goes on whatever discovery returned.
rollback_cmd_active_unchecked(p) ==
    /\ inv[p].pc = "rollback_cmd_active"
    /\ inv' = [inv EXCEPT ![p] =
                 [Goto(p, "rollback_cmd_inactive", "discover")
                    EXCEPT !.active_stack = get_active_stack]]
    /\ UNCHANGED <<world, page>>

\* deploy.sh:263-268
rollback_cmd_active(p) ==
    /\ inv[p].pc = "rollback_cmd_active"
    /\ inv' = [inv EXCEPT ![p] =
                 IF get_active_stack = NoStack
                 THEN [Exit(p, 1, "no_active_stack") EXCEPT !.active_stack = NoStack]
                 ELSE [Goto(p, "rollback_cmd_inactive", "discover")
                         EXCEPT !.active_stack = get_active_stack]]
    /\ UNCHANGED <<world, page>>

\* deploy.sh:270-271
rollback_cmd_inactive(p) ==
    /\ inv[p].pc = "rollback_cmd_inactive"
    /\ inv' = [inv EXCEPT ![p] =
                 [Goto(p, "rollback_switch", "discover_inactive")
                    EXCEPT !.inactive_stack = get_inactive_stack,
                           !.current_stack = inv[p].active_stack,
                           !.previous_stack = get_inactive_stack]]
    /\ UNCHANGED <<world, page>>

----------------------------------------------------------------------------
(* status and cleanup *)

\* Variant: the second listing is a `down` instead of a `ps`.
status_stops_green(p) ==
    /\ inv[p].pc = "status"
    /\ SetStack(GREEN_STACK, [running |-> {}, net |-> FALSE,
                              vol |-> GREEN_STACK \in volumes])
    /\ inv' = [inv EXCEPT ![p] =
                 [Exit(p, IF networks # {} THEN 0 ELSE 1, "status")
                    EXCEPT !.COMPOSE_PROJECT_NAME = GREEN_STACK]]
    /\ UNCHANGED <<routing, page>>

\* deploy.sh:247-260: two listings and, under set -e and pipefail, a
\* `network ls | grep` that fails when no network of the project exists.
status(p) ==
    /\ inv[p].pc = "status"
    /\ inv' = [inv EXCEPT ![p] =
                 [Exit(p, IF networks # {} THEN 0 ELSE 1, "status")
                    EXCEPT !.COMPOSE_PROJECT_NAME = GREEN_STACK]]
    /\ UNCHANGED <<world, page>>

\* Variant: without `|| true` a failed teardown of blue ends the command.
cleanup_blue_fatal(p) ==
    /\ inv[p].pc = "cleanup_blue"
    /\ \E ok \in BOOLEAN :
       \E r \in DownOutcomes(BLUE_STACK, TRUE, ok) :
        /\ SetStack(BLUE_STACK, r)
        /\ inv' = [inv EXCEPT ![p] =
                     [(IF ok THEN Goto(p, "cleanup_green", "down_blue")
                       ELSE Exit(p, 1, "down_blue_failed"))
                        EXCEPT !.COMPOSE_PROJECT_NAME = BLUE_STACK]]
    /\ UNCHANGED <<routing, page>>

\* deploy.sh:288-290
cleanup_blue(p) ==
    /\ inv[p].pc = "cleanup_blue"
    /\ \E ok \in BOOLEAN :
       \E r \in DownOutcomes(BLUE_STACK, TRUE, ok) :
        /\ SetStack(BLUE_STACK, r)
        /\ inv' = [inv EXCEPT ![p] =
                     [Goto(p, "cleanup_green", IF ok THEN "down_blue" ELSE "down_blue_failed")
                        EXCEPT !.COMPOSE_PROJECT_NAME = BLUE_STACK]]
    /\ UNCHANGED <<routing, page>>

\* deploy.sh:291-293
cleanup_green(p) ==
    /\ inv[p].pc = "cleanup_green"
    /\ \E ok \in BOOLEAN :
       \E r \in DownOutcomes(GREEN_STACK, TRUE, ok) :
        /\ SetStack(GREEN_STACK, r)
        /\ inv' = [inv EXCEPT ![p] =
                     [Exit(p, 0, IF ok THEN "down_green" ELSE "down_green_failed")
                        EXCEPT !.COMPOSE_PROJECT_NAME = GREEN_STACK]]
    /\ UNCHANGED <<routing, page>>

----------------------------------------------------------------------------
Step(p) ==
    \/ Invoke(p)
    \/ Usage(p)
    \/ check_prerequisites(p)
    \/ deploy_active(p)
    \/ deploy_inactive(p)
    \/ create_backup(p)
    \/ compose_pull(p)
    \/ compose_up(p)
    \/ health_poll(p)
    \/ migrate(p)
    \/ health_check(p)
    \/ switch_traffic(p)
    \/ stabilize(p)
    \/ verify(p)
    \/ cleanup_old_stack(p)
    \/ rollback_switch(p)
    \/ rollback_down(p)
    \/ rollback_cmd_active(p)
    \/ rollback_cmd_inactive(p)
    \/ status(p)
    \/ cleanup_blue(p)
    \/ cleanup_green(p)

\* Invocations run one at a time.
Next == \E p \in SeqProcs : Step(p)

Spec == Init /\ [][Next]_vars

\* Each call to a collaborator returns, so a running script takes its next
\* step: every operation runs to completion before returning.
SpecLive == Init /\ [][Next]_vars /\ WF_vars(Next)

\* Invocations with and without an argument.
NextMain ==
    \/ Next
    \/ \E p \in SeqProcs : InvokeBare(p)

SpecMain == Init /\ [][NextMain]_vars

----------------------------------------------------------------------------
(* Two deploys at the same time. *)

\* A slot as a finished deploy leaves it: all services up, routing at it.
SettledOn(s) ==
    [networks |-> {s}, running |-> [t \in Stacks |-> IF t = s THEN Services ELSE {}],
     volumes |-> {s}, routing |-> s]

\* Bootstrap, or one slot serving after earlier deploys.
InitConc ==
    /\ inv = [p \in Procs |-> Idle]
    /\ demo = initialState
    /\ ui = InitialUi
    /\ \E w \in {Idle.pre} \cup {SettledOn(s) : s \in Stacks} :
        /\ networks = w.networks
        /\ running = w.running
        /\ volumes = w.volumes
        /\ routing = w.routing

Alone(p) == \A q \in Procs \ {p} : ~Running(q)

\* What is examined here is the race, not the faults (those are in Spec):
\* pulling, starting and stopping a stack succeed, a reload and a migration
\* succeed whenever they can, and a slot found unhealthy is polled again only
\* by a run that is alone.  Services may be healthy or not and the requests
\* to the public address may fail.
PlatformWorks(p) ==
    LET event == Last(inv'[p].log)
        proj == inv[p].COMPOSE_PROJECT_NAME
    IN  /\ inv'[p].provisioned
        /\ event \notin {"cleanup_old_failed", "stop_failed"}
        /\ event \in {"cutover_failed", "restore_traffic_failed"} => ~ReloadCanSucceed(proj)
        /\ event = "migrate" => (inv'[p].migrated <=> "app" \in running[proj])
        /\ (inv[p].pc = "health_loop" /\ inv'[p].pc = "health_loop") => Alone(p)

\* Each process runs `deploy` once and starts whenever it likes: the script
\* takes no lock (deploy.sh:197-202).  Process 1 is the first to start.
InvokeDeploy(p) ==
    /\ inv[p].pc = "idle"
    /\ \A q \in Procs : q < p => inv[q].pc # "idle"
    /\ \A q \in Procs \ {p} : inv[q].pc = "health_loop" => inv[q].attempt = 1
    /\ InvokeOf(p, {"deploy"})

NextConc ==
    \E p \in Procs :
        \/ InvokeDeploy(p)
        \/ check_prerequisites(p) /\ PlatformWorks(p)
        \/ deploy_active(p) /\ PlatformWorks(p)
        \/ deploy_inactive(p) /\ PlatformWorks(p)
        \/ create_backup(p) /\ PlatformWorks(p)
        \/ compose_pull(p) /\ PlatformWorks(p)
        \/ compose_up(p) /\ PlatformWorks(p)
        \/ health_poll(p) /\ PlatformWorks(p)
        \/ migrate(p) /\ PlatformWorks(p)
        \/ health_check(p) /\ PlatformWorks(p)
        \/ switch_traffic(p) /\ PlatformWorks(p)
        \/ stabilize(p) /\ PlatformWorks(p)
        \/ verify(p) /\ PlatformWorks(p)
        \/ cleanup_old_stack(p) /\ PlatformWorks(p)
        \/ rollback_switch(p) /\ PlatformWorks(p)
        \/ rollback_down(p) /\ PlatformWorks(p)

SpecConc == InitConc /\ [][NextConc]_vars

----------------------------------------------------------------------------
(* The demo page (components/DemoMode.jsx) driving the state machine. *)

\* part_003:262: dispatch(action) replaces the state by the reducer's result.
dispatch(state, type, payload) == demoReducer(state, type, payload)

\* DemoMode.jsx:560-564: a flow card is clicked on the selection screen,
\* which is rendered while no flow is selected (640).
startFlow ==
    /\ ui.selectedFlow = Null
    /\ \E flowType \in DEMO_FLOWS :
        /\ ui' = [ui EXCEPT !.selectedFlow = flowType, !.showCamera = TRUE]
        /\ demo' = dispatch(demo, "START_SCAN", flowType)
    /\ UNCHANGED <<world, inv>>

\* DemoMode.jsx:567-577: the camera, rendered while showCamera holds, hands
\* over an image; the handler runs up to its first await.
handleCapture ==
    /\ ui.selectedFlow # Null
    /\ ui.showCamera
    /\ \E k \in Pipes :
        /\ ui.pipes[k].pc = "none"
        /\ \A j \in Pipes : j < k => ui.pipes[j].pc # "none"
        /\ ui' = [ui EXCEPT !.showCamera = FALSE,
                            !.pipes[k] = [pc |-> "cnn", flow |-> ui.selectedFlow]]
    /\ demo' = dispatch(dispatch(demo, "SCAN_COMPLETE", Null),
                        "START_FEATURE_EXTRACTION", Null)
    /\ UNCHANGED <<world, inv>>

\* DemoMode.jsx:621-625: an await that throws ends the handler in its catch.
Thrown(k) ==
    /\ ui' = [ui EXCEPT !.pipes[k] = NoPipe]
    /\ demo' = dispatch(demo, "SET_ERROR", "message")

\* DemoMode.jsx:577-588: processFaceWithCNN has settled.
afterCNN ==
    /\ \E k \in Pipes :
        /\ ui.pipes[k].pc = "cnn"
        /\ \E ok \in BOOLEAN :
            IF ok
            THEN /\ ui' = [ui EXCEPT !.pipes[k].pc = "encrypt"]
                 /\ demo' = dispatch(dispatch(demo, "FEATURE_EXTRACTION_COMPLETE", "embedding"),
                                     "START_ENCRYPTION", Null)
            ELSE Thrown(k)
    /\ UNCHANGED <<world, inv>>

\* DemoMode.jsx:588-612: encryptFaceEmbedding has settled; the flow is the
\* one selected when the handler was created.
afterEncryption ==
    /\ \E k \in Pipes :
        /\ ui.pipes[k].pc = "encrypt"
        /\ \E ok \in BOOLEAN :
            IF ok
            THEN LET done == dispatch(demo, "ENCRYPTION_COMPLETE", "ciphertext")
                 IN  IF ui.pipes[k].flow = "SETUP"
                     THEN /\ ui' = [ui EXCEPT !.pipes[k].pc = "store"]
                          /\ demo' = dispatch(done, "START_STORING", Null)
                     ELSE /\ ui' = [ui EXCEPT !.pipes[k].pc = "match"]
                          /\ demo' = dispatch(done, "START_MATCHING", Null)
            ELSE Thrown(k)
    /\ UNCHANGED <<world, inv>>

\* DemoMode.jsx:598-607: storeTemplate has settled.
afterStore ==
    /\ \E k \in Pipes :
        /\ ui.pipes[k].pc = "store"
        /\ \E result \in {"success", "failure", "throws"} :
            CASE result = "success" ->
                   /\ ui' = [ui EXCEPT !.pipes[k] = NoPipe]
                   /\ demo' = dispatch(demo, "STORING_COMPLETE", "templateId")
              [] result = "failure" ->
                   /\ ui' = [ui EXCEPT !.pipes[k] = NoPipe]
                   /\ demo' = dispatch(demo, "SET_ERROR", "Failed to store template")
              [] OTHER -> Thrown(k)
    /\ UNCHANGED <<world, inv>>

\* DemoMode.jsx:612-620: the matching delay is over.
afterMatch ==
    /\ \E k \in Pipes :
        /\ ui.pipes[k].pc = "match"
        /\ \E result \in {"found", "not found", "throws"} :
            CASE result = "found" ->
                   /\ ui' = [ui EXCEPT !.pipes[k] = NoPipe]
                   /\ demo' = dispatch(demo, "MATCH_SUCCESS", "confidence")
              [] result = "not found" ->
                   /\ ui' = [ui EXCEPT !.pipes[k] = NoPipe]
                   /\ demo' = dispatch(demo, "MATCH_FAILED", "bestSimilarity")
              [] OTHER -> Thrown(k)
    /\ UNCHANGED <<world, inv>>

\* DemoMode.jsx:629-637, offered by the result display (806) and by the
\* cancel button (812-821) once a flow is selected.  A handler that is in
\* flight is not cancelled.
resetDemo ==
    /\ ui.selectedFlow # Null
    /\ ui' = [ui EXCEPT !.selectedFlow = Null, !.showCamera = FALSE]
    /\ demo' = dispatch(demo, "RESET", Null)
    /\ UNCHANGED <<world, inv>>

NextDemo ==
    \/ startFlow
    \/ handleCapture
    \/ afterCNN
    \/ afterEncryption
    \/ afterStore
    \/ afterMatch
    \/ resetDemo

SpecDemo == Init /\ [][NextDemo]_vars

----------------------------------------------------------------------------
(* Vocabulary of the properties. *)

\* every b in q comes after some a
Precedes(q, a, b) ==
    \A j \in DOMAIN q : q[j] = b => \E i \in 1..(j - 1) : q[i] = a

\* A slot is provisioned when the platform shows its marker (its networks).
ProvisionedIn(w, s) == s \in w.networks
Provisioned(s) == ProvisionedIn(Snapshot, s)

\* A slot is ACTIVE when public traffic is routed to it and it exists.
ActiveIn(w, s) == w.routing = s /\ ProvisionedIn(w, s)
ActiveSet(w) == {s \in Stacks : ActiveIn(w, s)}

\* The role the Environment Registry gives a slot.
RegistryRole(s) ==
    IF get_active_stack = s THEN "ACTIVE"
    ELSE IF get_inactive_stack = s THEN "INACTIVE"
    ELSE "UNKNOWN"

DecommissionedIn(w, s) ==
    w.running[s] = {} /\ s \notin w.networks /\ s \notin w.volumes

Deploys == {p \in Procs : inv[p].cmd = "deploy"}
Finished(p) == inv[p].pc = "done"

----------------------------------------------------------------------------
\* C1: deploy reaches and performs the cutover to its target slot only when
\* the last health probe of that slot in the invocation passed.
C1_CutoverOnlyAfterPassedProbe ==
    \A p \in Deploys :
        (\/ inv[p].pc = "switch_traffic"
         \/ "cutover" \in Range(inv[p].log)
         \/ "cutover_failed" \in Range(inv[p].log))
        => /\ inv[p].probe.made
           /\ inv[p].probe.passed
           /\ inv[p].probe.slot = inv[p].inactive_stack

C1_Witness ==
    \E p \in Deploys :
        /\ Last(inv[p].log) = "cutover"
        /\ routing = inv[p].inactive_stack
        /\ inv[p].probe.passed

\* C2: a health probe passes only when the healthy services are all the
\* expected services of the slot, and never with none healthy.
C2_ProbePassesOnlyWhenAllHealthy ==
    \A p \in Procs :
        (inv[p].probe.made /\ inv[p].probe.passed)
        => /\ inv[p].probe.healthyServices > 0
           /\ inv[p].probe.healthyServices = inv[p].probe.totalServices

\* C3: at most one slot holds role ACTIVE, and then the other slot, if
\* provisioned, holds role INACTIVE.
C3_AtMostOneActive ==
    /\ Cardinality({s \in Stacks : RegistryRole(s) = "ACTIVE"}) <= 1
    /\ \A s \in Stacks : \A t \in Stacks \ {s} :
         (RegistryRole(s) = "ACTIVE" /\ Provisioned(t)) => RegistryRole(t) = "INACTIVE"

C3_Witness ==
    /\ networks = Stacks
    /\ RegistryRole(BLUE_STACK) = "ACTIVE"
    /\ RegistryRole(GREEN_STACK) = "INACTIVE"
    /\ \E p \in Procs : Finished(p)

\* C4: after a deploy that exits 0 exactly one slot is ACTIVE and it is not
\* the slot that was ACTIVE when the invocation began.
C4_SuccessSwitchesActive ==
    \A p \in Deploys :
        (Finished(p) /\ inv[p].exit = 0)
        => /\ Cardinality(ActiveSet(Snapshot)) = 1
           /\ ActiveSet(Snapshot) \cap ActiveSet(inv[p].pre) = {}

\* C5: when the health probe has not passed by the last attempt, deploy ends
\* with a nonzero status and routing is what it was before.
C5_HealthTimeoutKeepsRouting ==
    \A p \in Deploys :
        (Finished(p) /\ inv[p].probe.made /\ ~inv[p].probe.passed)
        => /\ inv[p].exit # 0
           /\ routing = inv[p].pre.routing

C5_Witness ==
    \E p \in Deploys :
        /\ Finished(p)
        /\ Last(inv[p].log) = "health_timeout"
        /\ inv[p].attempt = max_attempts
        /\ ~inv[p].probe.passed
        /\ inv[p].pre.routing \in Stacks
        /\ Provisioned(inv[p].inactive_stack)

\* C6: when verification fails in a deploy begun with slot X ACTIVE and the
\* rollback completes, routing is at X again, X is ACTIVE with its service set
\* unchanged, the target slot is stopped and the exit status is nonzero.
C6_RollbackRestoresPriorState ==
    \A p \in Deploys : \A X \in ActiveSet(inv[p].pre) :
        (/\ Finished(p)
         /\ "verify_failed" \in Range(inv[p].log)
         /\ Last(inv[p].log) = "stop")
        => /\ routing = X
           /\ ActiveIn(Snapshot, X)
           /\ running[X] = inv[p].pre.running[X]
           /\ running[inv[p].inactive_stack] = {}
           /\ inv[p].exit # 0

\* C7: a deploy or rollback that ends with a nonzero status, other than by a
\* failed traffic restoration, leaves routing at a provisioned slot that is
\* serving and has not just failed its verification.  (Stated for the runs
\* that had a serving slot to begin with or that cut traffic over.)
C7_FailureLeavesKnownGoodSlot ==
    \A p \in Procs :
        (/\ inv[p].cmd \in {"deploy", "rollback"}
         /\ Finished(p)
         /\ inv[p].exit # 0
         /\ Last(inv[p].log) # "restore_traffic_failed"
         /\ \/ "cutover" \in Range(inv[p].log)
            \/ \E s \in Stacks : /\ ActiveIn(inv[p].pre, s)
                                 /\ inv[p].pre.running[s] = Services)
        => \E s \in Stacks :
              /\ ActiveIn(Snapshot, s)
              /\ running[s] = Services
              /\ ~("verify_failed" \in Range(inv[p].log) /\ s = inv[p].inactive_stack)

\* C8: within a deploy, a slot's services and volumes are removed only after
\* the verification probe of that invocation has passed, and only those of
\* the slot recorded as active; until then that slot is left as it was.
C8_CleanupOnlyAfterVerification ==
    \A p \in Deploys :
        /\ \A s \in Stacks :
             (s \in inv[p].pre.volumes /\ s \notin volumes)
             => ("verify_ok" \in Range(inv[p].log) /\ s = inv[p].active_stack)
        /\ (inv[p].active_stack # NoStack /\ "verify_ok" \notin Range(inv[p].log))
             => /\ running[inv[p].active_stack] = inv[p].pre.running[inv[p].active_stack]
                /\ ProvisionedIn(inv[p].pre, inv[p].active_stack)
                     = Provisioned(inv[p].active_stack)

C8_Witness ==
    \E p \in Deploys :
        /\ Finished(p)
        /\ Last(inv[p].log) = "cleanup_old"
        /\ ~DecommissionedIn(inv[p].pre, inv[p].active_stack)
        /\ DecommissionedIn(Snapshot, inv[p].active_stack)

\* C9: in a rollback the stack is stopped only after the traffic restoration
\* has succeeded; when the stop begins routing is at the slot reverted to and
\* not at the slot being stopped.
C9_RestoreBeforeTeardown ==
    \A p \in Procs :
        /\ Precedes(inv[p].log, "restore_traffic", "stop")
        /\ Precedes(inv[p].log, "restore_traffic", "stop_failed")
        /\ "restore_traffic_failed" \in Range(inv[p].log)
             => Last(inv[p].log) = "restore_traffic_failed"
        /\ inv[p].pc = "rollback_down"
             => /\ routing = inv[p].previous_stack
                /\ routing # inv[p].current_stack

C9_Witness ==
    \E p \in Procs :
        /\ Finished(p)
        /\ Last(inv[p].log) = "stop"
        /\ "restore_traffic" \in Range(inv[p].log)
        /\ running[inv[p].current_stack] = {}
        /\ inv[p].pre.running[inv[p].current_stack] # {} \/ inv[p].cmd = "deploy"

\* C10: status leaves the slots and routing as they were.
C10_StatusReadOnly ==
    \A p \in SeqProcs :
        (inv[p].cmd = "status" /\ Finished(p)) => Snapshot = inv[p].pre

C10_Witness ==
    \E p \in SeqProcs :
        /\ inv[p].cmd = "status"
        /\ Finished(p)
        /\ networks = Stacks
        /\ routing = GREEN_STACK

----------------------------------------------------------------------------
\* C12: deploy exits 0 exactly when the cutover was made and the verification
\* probe passed; every other end of deploy has a nonzero status.
C12_ExitZeroIffSuccess ==
    \A p \in Deploys :
        Finished(p)
        => ((inv[p].exit = 0)
              <=> ("cutover" \in Range(inv[p].log) /\ "verify_ok" \in Range(inv[p].log)))

\* C13: with a prerequisite missing, deploy and rollback end with a nonzero
\* status before any other step, and slots and routing are as before.
C13_MissingPrerequisiteAborts ==
    \A p \in Procs :
        "prerequisites_missing" \in Range(inv[p].log)
        => /\ Finished(p)
           /\ inv[p].exit # 0
           /\ inv[p].log = <<"prerequisites_missing">>
           /\ Snapshot = inv[p].pre
           /\ inv[p].active_stack = NoStack /\ inv[p].inactive_stack = NoStack
           /\ inv[p].backup = NoStack /\ ~inv[p].probe.made

C13_Witness ==
    \E p \in Procs :
        /\ inv[p].cmd = "rollback"
        /\ inv[p].log = <<"prerequisites_missing">>
        /\ inv[p].pre.routing = GREEN_STACK
        /\ inv[p].pre.networks = Stacks

\* C14: when pulling or starting the target's service set is rejected, deploy
\* makes no cutover, leaves routing and the previously active slot alone,
\* does not clean up the target and ends with a nonzero status.
C14_ProvisioningFailureAborts ==
    \A p \in Deploys :
        (~inv[p].provisioned /\ "up" \in Range(inv[p].log))
        => /\ inv[p].pc # "switch_traffic"
           /\ "cutover" \notin Range(inv[p].log)
           /\ routing = inv[p].pre.routing
           /\ Finished(p) => inv[p].exit # 0

\* C15: a failed cutover is not retried and nothing follows it: deploy ends
\* there with a nonzero status and routing as it was before the invocation.
C15_CutoverFailureIsFatal ==
    \A p \in Deploys :
        "cutover_failed" \in Range(inv[p].log)
        => /\ Finished(p)
           /\ Last(inv[p].log) = "cutover_failed"
           /\ Cardinality({i \in DOMAIN inv[p].log : inv[p].log[i] = "cutover_failed"}) = 1
           /\ "cutover" \notin Range(inv[p].log)
           /\ inv[p].exit # 0
           /\ routing = inv[p].pre.routing

C15_Witness ==
    \E p \in Deploys :
        /\ Finished(p)
        /\ Last(inv[p].log) = "cutover_failed"
        /\ inv[p].probe.passed
        /\ inv[p].pre.routing \in Stacks
        /\ routing = inv[p].pre.routing
        /\ routing # inv[p].inactive_stack

\* C16: when cleaning up the old slot fails after the cutover and a passed
\* verification, deploy still exits 0 and the new slot is ACTIVE.
C16_CleanupFailureKeepsSuccess ==
    \A p \in Deploys :
        (Finished(p) /\ "cleanup_old_failed" \in Range(inv[p].log))
        => /\ inv[p].exit = 0
           /\ ActiveIn(Snapshot, inv[p].inactive_stack)

\* C17: whatever the outcome of the backup, deploy goes on to provisioning
\* the target and the outcome of the dump changes nothing else: a run whose
\* dump failed is never stopped at the backup, and the step differs between
\* a successful and a failed dump only in the backup reference it records.
C17_BackupFailureNeverBlocks ==
    /\ [][\A p \in Deploys :
            inv[p].pc = "create_backup" /\ inv'[p] # inv[p]
            => /\ inv'[p] = [Goto(p, "pull", "backup") EXCEPT !.backup = inv'[p].backup]
               /\ inv'[p].backup \in {NoStack, BLUE_STACK}
               /\ world' = world]_vars
    /\ [](\A p \in Deploys :
            ("backup" \in Range(inv[p].log) /\ Finished(p))
            => "pull" \in Range(inv[p].log))

C17_Witness ==
    \E p \in Deploys :
        /\ Finished(p)
        /\ inv[p].exit = 0
        /\ "backup" \in Range(inv[p].log)
        /\ inv[p].backup = NoStack
        /\ "cutover" \in Range(inv[p].log)

\* C18: when the restoration of traffic fails, the rollback ends there with
\* a nonzero status, no step follows it, and the slot that was being left is
\* not stopped: routing is as the rollback found it and that slot's services
\* are as they were (for the rollback command, as at invocation).
C18_RestoreFailureIsFatal ==
    \A p \in Procs :
        "restore_traffic_failed" \in Range(inv[p].log)
        => /\ Finished(p)
           /\ inv[p].exit # 0
           /\ Last(inv[p].log) = "restore_traffic_failed"
           /\ "stop" \notin Range(inv[p].log)
           /\ "stop_failed" \notin Range(inv[p].log)
           /\ inv[p].cmd = "rollback"
                => /\ Snapshot = inv[p].pre
                   /\ inv[p].current_stack \in networks
           /\ inv[p].cmd = "deploy"
                => /\ running[inv[p].current_stack] # {}
                   /\ inv[p].current_stack \in networks
                   /\ routing = inv[p].current_stack

C18_Witness ==
    \E p \in Procs :
        /\ inv[p].cmd = "deploy"
        /\ Finished(p)
        /\ Last(inv[p].log) = "restore_traffic_failed"
        /\ "verify_failed" \in Range(inv[p].log)
        /\ inv[p].previous_stack \in Stacks
        /\ running[inv[p].current_stack] = Services

\* C19: after a deploy that provisioned its target and gave up on the health
\* timeout, every slot that was ACTIVE before is still ACTIVE, is the slot
\* registry discovery reports, and the target is still provisioned.
C19_TimeoutKeepsActiveSlot ==
    \A p \in Deploys :
        (Finished(p) /\ Last(inv[p].log) = "health_timeout" /\ inv[p].provisioned)
        => \A X \in ActiveSet(inv[p].pre) :
              /\ ActiveIn(Snapshot, X)
              /\ running[X] = inv[p].pre.running[X]
              /\ get_active_stack = X
              /\ Provisioned(inv[p].inactive_stack)

\* C20: from bootstrap, discovery reports no active slot, the target is the
\* default slot, no backup is taken, no slot is cleaned up, and a deploy that
\* ends with status 0 leaves exactly the default slot ACTIVE.
C20_BootstrapDeploy ==
    \A p \in Deploys :
        inv[p].pre.networks = {}
        => /\ inv[p].active_stack = NoStack
           /\ "discover_inactive" \in Range(inv[p].log) => inv[p].inactive_stack = BLUE_STACK
           /\ "backup" \notin Range(inv[p].log)
           /\ inv[p].backup = NoStack
           /\ "cleanup_old" \notin Range(inv[p].log)
           /\ "cleanup_old_failed" \notin Range(inv[p].log)
           /\ inv[p].pc # "cleanup_old_stack"
           /\ StackState(GREEN_STACK) = [running |-> inv[p].pre.running[GREEN_STACK],
                                         net |-> FALSE,
                                         vol |-> GREEN_STACK \in inv[p].pre.volumes]
           /\ (Finished(p) /\ inv[p].exit = 0) => ActiveSet(Snapshot) = {BLUE_STACK}

C20_Witness ==
    \E p \in Deploys :
        /\ inv[p].pre.networks = {}
        /\ Finished(p)
        /\ inv[p].exit = 0
        /\ "verify_ok" \in Range(inv[p].log)
        /\ routing = BLUE_STACK
        /\ running[BLUE_STACK] = Services

\* C11: nothing keeps two deploys apart, and a deploy that runs while another
\* is under way can take for its target the very slot it recorded as active,
\* which it then cleans up.  A deploy that ran by itself never does: its
\* target differs from the slot it found active.
C11_TargetIsActiveOnlyWhenOverlapped ==
    \A p \in Deploys :
        ("discover_inactive" \in Range(inv[p].log)
           /\ inv[p].active_stack = inv[p].inactive_stack)
        => inv[p].overlapped

\* A deploy ends with status 0 having cleaned up its own target: routing
\* points at a slot that has been decommissioned.
C11_Witness ==
    \E p \in Deploys :
        /\ Finished(p)
        /\ inv[p].exit = 0
        /\ inv[p].overlapped
        /\ inv[p].active_stack = inv[p].inactive_stack
        /\ Last(inv[p].log) = "cleanup_old"
        /\ routing = inv[p].inactive_stack
        /\ DecommissionedIn(Snapshot, routing)

\* The other slot.
OtherStack(s) == IF s = BLUE_STACK THEN GREEN_STACK ELSE BLUE_STACK

\* C21: with exactly slot X provisioned and ACTIVE, a deploy that ends with
\* status 0 has brought up the other slot Y, then cut over to Y, then
\* decommissioned X with its volumes: Y is ACTIVE and the only provisioned slot.
C21_SteadyStateDeploy ==
    \A p \in Deploys : \A X \in Stacks :
        (Finished(p) /\ inv[p].exit = 0
           /\ inv[p].pre.networks = {X} /\ inv[p].pre.routing = X)
        => /\ inv[p].active_stack = X
           /\ inv[p].inactive_stack = OtherStack(X)
           /\ Precedes(inv[p].log, "up", "cutover")
           /\ Precedes(inv[p].log, "cutover", "cleanup_old")
           /\ Last(inv[p].log) = "cleanup_old"
           /\ ActiveSet(Snapshot) = {OtherStack(X)}
           /\ networks = {OtherStack(X)}
           /\ DecommissionedIn(Snapshot, X)

C21_Witness ==
    \E p \in Deploys :
        /\ Finished(p) /\ inv[p].exit = 0
        /\ inv[p].pre.networks = {GREEN_STACK} /\ inv[p].pre.routing = GREEN_STACK
        /\ inv[p].pre.running[GREEN_STACK] = Services
        /\ GREEN_STACK \in inv[p].pre.volumes
        /\ running[BLUE_STACK] = Services
        /\ routing = BLUE_STACK

Cleanups == {p \in Procs : inv[p].cmd = "cleanup"}

\* What cleanup does whatever the platform answers: both teardowns are
\* attempted, blue first, the status is 0, and on slots that are already
\* decommissioned it changes nothing.
CleanupAlways(p) ==
    /\ inv[p].exit = 0
    /\ Len(inv[p].log) = 2
    /\ inv[p].log[1] \in {"down_blue", "down_blue_failed"}
    /\ inv[p].log[2] \in {"down_green", "down_green_failed"}
    /\ (\A s \in Stacks : DecommissionedIn(inv[p].pre, s)) => Snapshot = inv[p].pre

\* C22 as stated: every finished cleanup leaves both slots decommissioned
\* and no slot ACTIVE, has attempted both teardowns, ends with status 0 and
\* is idempotent.
C22_CleanupResets ==
    \A p \in Cleanups :
        Finished(p)
        => /\ CleanupAlways(p)
           /\ \A s \in Stacks : DecommissionedIn(Snapshot, s)
           /\ ActiveSet(Snapshot) = {}

\* C22 amended: a finished cleanup has attempted both teardowns, ends with
\* status 0 and is idempotent; each slot whose teardown the platform carried
\* out is decommissioned, and when both were carried out no slot is ACTIVE.
C22_CleanupResetsWhatItCan ==
    \A p \in Cleanups :
        Finished(p)
        => /\ CleanupAlways(p)
           /\ "down_blue" \in Range(inv[p].log) => DecommissionedIn(Snapshot, BLUE_STACK)
           /\ "down_green" \in Range(inv[p].log) => DecommissionedIn(Snapshot, GREEN_STACK)
           /\ inv[p].log = <<"down_blue", "down_green">> => ActiveSet(Snapshot) = {}

C22_Witness ==
    \E p \in Cleanups :
        /\ Finished(p)
        /\ inv[p].log = <<"down_blue_failed", "down_green">>
        /\ inv[p].pre.networks = Stacks
        /\ inv[p].pre.running[GREEN_STACK] = Services
        /\ DecommissionedIn(Snapshot, GREEN_STACK)
        /\ inv[p].exit = 0

\* The phase of deploy an event belongs to: 0 before discovery, 1 DISCOVERING,
\* 2 BACKING_UP, 3 DEPLOYING, 4 HEALTH_CHECKING, 5 CUTTING_OVER, 6 VERIFYING,
\* 7 CLEANING_UP, 8 ROLLING_BACK.
Phase(event) ==
    CASE event \in {"discover", "discover_inactive"} -> 1
      [] event = "backup" -> 2
      [] event \in {"pull", "up"} -> 3
      [] event \in {"healthy", "health_timeout", "migrate",
                    "health_check_ok", "health_check_failed"} -> 4
      [] event \in {"cutover", "cutover_failed"} -> 5
      [] event \in {"stabilize", "verify_ok", "verify_failed"} -> 6
      [] event \in {"cleanup_old", "cleanup_old_failed"} -> 7
      [] event \in {"restore_traffic", "restore_traffic_failed",
                    "stop", "stop_failed"} -> 8
      [] OTHER -> 0

\* The moves between phases the state machine allows.
PhaseMoves ==
    {<<0, 1>>, <<1, 2>>, <<1, 3>>, <<2, 3>>, <<3, 4>>, <<4, 5>>, <<5, 6>>,
     <<6, 7>>, <<6, 8>>}

\* The phases of a log follow one another as allowed and none is revisited;
\* ROLLING_BACK is entered only on a failed verification.
PhasesInOrder(log) ==
    /\ \A i \in 1..(Len(log) - 1) :
          \/ Phase(log[i]) = Phase(log[i + 1])
          \/ <<Phase(log[i]), Phase(log[i + 1])>> \in PhaseMoves
    /\ \A i \in 1..(Len(log) - 1) :
          Phase(log[i + 1]) = 8 => (Phase(log[i]) = 8 \/ log[i] = "verify_failed")

\* C23: the phases of a deploy occur in the documented order without
\* revisits, and a deploy ends only in DONE_SUCCESS (status 0 after the
\* verification passed and the cleanup, if any), in DONE_DEPLOY_FAILED with
\* no cutover made, or after ROLLING_BACK.
C23_PhaseOrder ==
    \A p \in Deploys :
        /\ PhasesInOrder(inv[p].log)
        /\ Finished(p)
           => \/ /\ inv[p].exit = 0
                 /\ Last(inv[p].log) \in {"verify_ok", "cleanup_old"}
              \/ /\ inv[p].exit # 0
                 /\ Phase(Last(inv[p].log)) <= 5
                 /\ "cutover" \notin Range(inv[p].log)
              \/ /\ inv[p].exit # 0
                 /\ Phase(Last(inv[p].log)) = 8

\* The order alone (used to tell the failing part of C23 from the rest).
C23_OrderOnly ==
    \A p \in Deploys : PhasesInOrder(inv[p].log)

VerifyEvents == {"verify_ok", "verify_failed"}

Count(log, events) == Cardinality({i \in DOMAIN log : log[i] \in events})

\* C24: the cutover is followed by the stabilization wait and that by one
\* verification probe, which is never repeated; a passed probe leads to the
\* cleanup (when there is an old slot) and to status 0, a failed probe leads
\* directly to the rollback.
C24_OneVerificationProbe ==
    \A p \in Deploys :
        LET log == inv[p].log
            n == Len(log)
        IN  /\ Count(log, VerifyEvents) <= 1
            /\ Count(log, {"stabilize"}) <= 1
            /\ \A i \in DOMAIN log :
                 /\ log[i] = "cutover"
                      => IF i < n THEN log[i + 1] = "stabilize" ELSE inv[p].pc = "stabilize"
                 /\ log[i] = "stabilize"
                      => /\ log[i - 1] = "cutover"
                         /\ IF i < n THEN log[i + 1] \in VerifyEvents ELSE inv[p].pc = "verify"
                 /\ log[i] = "verify_ok"
                      => /\ log[i - 1] = "stabilize"
                         /\ IF i < n THEN log[i + 1] \in {"cleanup_old", "cleanup_old_failed"}
                            ELSE \/ inv[p].pc = "cleanup_old_stack"
                                 \/ inv[p].active_stack = NoStack /\ Finished(p)
                         /\ Finished(p) => inv[p].exit = 0
                 /\ log[i] = "verify_failed"
                      => /\ log[i - 1] = "stabilize"
                         /\ IF i < n THEN log[i + 1] \in {"restore_traffic", "restore_traffic_failed"}
                            ELSE inv[p].pc = "rollback_switch"

Rollbacks == {p \in Procs : inv[p].cmd = "rollback"}

\* What a finished standalone rollback did when X was the ACTIVE slot.
RollbackOnly(p, X) ==
    /\ inv[p].log = <<"prerequisites_ok", "discover", "discover_inactive",
                      "restore_traffic", "stop">>
    /\ routing = OtherStack(X)
    /\ running[X] = {}
    /\ running[OtherStack(X)] = inv[p].pre.running[OtherStack(X)]
    /\ volumes = inv[p].pre.volumes
    /\ inv[p].backup = NoStack
    /\ ~inv[p].probe.made

\* C25: a standalone rollback that ends with status 0 with slot X ACTIVE
\* beforehand has only discovered, repointed routing to the other slot and
\* then stopped X, keeping the volumes.
C25_StandaloneRollback ==
    \A p \in Rollbacks : \A X \in Stacks :
        (Finished(p) /\ inv[p].exit = 0 /\ ActiveIn(inv[p].pre, X))
        => RollbackOnly(p, X)

\* The same with X the only provisioned slot.
C25_WhenOnlyXProvisioned ==
    \A p \in Rollbacks : \A X \in Stacks :
        (Finished(p) /\ inv[p].exit = 0 /\ ActiveIn(inv[p].pre, X)
           /\ inv[p].pre.networks = {X})
        => RollbackOnly(p, X)

\* C26: a deploy attempts the backup exactly when it found an active slot,
\* and with slot X ACTIVE at its start a dump that was taken is a dump of X.
C26_BackupOfActiveSlot ==
    \A p \in Deploys :
        "pull" \in Range(inv[p].log)
        => /\ "backup" \in Range(inv[p].log) <=> inv[p].active_stack # NoStack
           /\ \A X \in ActiveSet(inv[p].pre) : inv[p].backup \in {NoStack, X}

\* The dump is never one of the green slot.
C26_DumpIsOfBlue ==
    \A p \in Deploys : inv[p].backup \in {NoStack, BLUE_STACK}

\* With green the only provisioned slot and ACTIVE the backup is attempted.
C26_GreenActiveBackupAttempted ==
    \E p \in Deploys :
        /\ inv[p].pre.networks = {GREEN_STACK} /\ inv[p].pre.routing = GREEN_STACK
        /\ "postgres" \in inv[p].pre.running[GREEN_STACK]
        /\ "backup" \in Range(inv[p].log)

\* C27: the wait loop makes at most max_attempts status queries in a deploy
\* and ends at the first that passes; and, each step returning, every
\* invocation that is running reaches its end.
C27_BoundedPollingAndTermination ==
    /\ [](\A p \in Procs :
            /\ inv[p].attempt \in 0..max_attempts
            /\ inv[p].pc = "health_loop"
                 => /\ inv[p].attempt >= 1
                    /\ inv[p].probe.made <=> inv[p].attempt > 1
                    /\ ~inv[p].probe.passed
            /\ "health_timeout" \in Range(inv[p].log) => ~inv[p].probe.passed
            /\ "healthy" \in Range(inv[p].log) => inv[p].probe.passed)
    /\ [][\A p \in Procs :
            (inv[p].pc = "health_loop" /\ inv'[p] # inv[p])
            => \/ inv'[p].pc = "health_loop" /\ inv'[p].attempt = inv[p].attempt + 1
                   /\ ~inv'[p].probe.passed
               \/ inv'[p].pc = "migrate" /\ inv'[p].probe.passed
               \/ inv'[p].pc = "done" /\ inv[p].attempt = max_attempts
                   /\ ~inv'[p].probe.passed]_vars
    /\ \A p \in SeqProcs : Running(p) ~> Finished(p)

C27_Witness ==
    \E p \in Procs :
        /\ inv[p].cmd = "deploy"
        /\ Finished(p)
        /\ Last(inv[p].log) = "health_timeout"
        /\ inv[p].attempt = max_attempts
        /\ inv[p].probe.made

\* The moves of currentState the documented flows allow (part_003:5-6),
\* with feature extraction and encryption as optional stages of both.
FlowMoves(flow) ==
    (IF flow \in DEMO_FLOWS
     THEN {<<"IDLE", "SCANNING">>, <<"SCANNING", "PROCESSING">>,
           <<"PROCESSING", "EXTRACTING_FEATURES">>, <<"PROCESSING", "ENCRYPTING">>,
           <<"EXTRACTING_FEATURES", "ENCRYPTING">>}
     ELSE {})
    \cup (IF flow = "SETUP"
          THEN {<<"ENCRYPTING", "STORING">>, <<"STORING", "SUCCESS">>}
          ELSE IF flow = "ACCESS"
          THEN {<<"PROCESSING", "MATCHING">>, <<"EXTRACTING_FEATURES", "MATCHING">>,
                <<"ENCRYPTING", "MATCHING">>,
                <<"MATCHING", "ACCESS_GRANTED">>, <<"MATCHING", "ACCESS_DENIED">>}
          ELSE {})

\* One move, or the two moves of a handler that dispatches two actions.
Along(flow, from, to) ==
    \/ <<from, to>> \in FlowMoves(flow)
    \/ \E mid \in DEMO_STATES :
          <<from, mid>> \in FlowMoves(flow) /\ <<mid, to>> \in FlowMoves(flow)

\* C28: currentState changes only along the flow in progress, to ERROR, or
\* back to IDLE by a reset: an action dispatched in a state that is not its
\* documented predecessor does not move the machine on.
C28_DemoFollowsFlows ==
    [][demo'.currentState # demo.currentState
       => \/ Along(demo'.flow, demo.currentState, demo'.currentState)
          \/ demo'.currentState = "ERROR"
          \/ demo' = initialState]_vars

\* C29: between invocations, the slot registry discovery reports as active
\* is the slot routing points at, and it reports none exactly when no slot
\* is provisioned.
C29_RegistryAgreesWithRouting ==
    (\A p \in SeqProcs : ~Running(p))
    => /\ get_active_stack # NoStack => get_active_stack = routing
       /\ get_active_stack = NoStack <=> \A s \in Stacks : ~Provisioned(s)

\* The same for a serving slot: green is ACTIVE and discovery reports blue.
C29_GreenActiveReportedBlue ==
    /\ \A p \in SeqProcs : ~Running(p)
    /\ ActiveIn(Snapshot, GREEN_STACK)
    /\ running[GREEN_STACK] = Services
    /\ get_active_stack = BLUE_STACK

\* C30: a standalone rollback changes the services of the slot that was
\* ACTIVE only if the slot it reverts to was provisioned, and when a slot
\* was ACTIVE before a rollback that ends with status 0, a slot is ACTIVE after.
C30_RollbackNeedsProvisionedTarget ==
    \A p \in Rollbacks : \A X \in Stacks :
        ActiveIn(inv[p].pre, X)
        => /\ running[X] # inv[p].pre.running[X]
                => ProvisionedIn(inv[p].pre, inv[p].previous_stack)
           /\ (Finished(p) /\ inv[p].exit = 0) => ActiveSet(Snapshot) # {}

\* C31: in every deploy the target slot differs from the slot that deploy
\* recorded as active, although the two are found by two separate discovery
\* reads; no deploy provisions, cuts over to and then cleans up one slot.
C31_TargetDiffersFromActive ==
    \A p \in Deploys :
        "discover_inactive" \in Range(inv[p].log)
        => inv[p].inactive_stack # inv[p].active_stack

\* C32: a slot's durable volumes are destroyed only by the cleanup of the old
\* slot after a verified cutover, or by the cleanup command; rollback (within
\* deploy or standalone) and every failing path of deploy stop services at
\* most and leave every slot's volumes in place.
C32_VolumesDestroyedOnlyByCleanup ==
    [][\A s \in Stacks :
          (s \in volumes /\ s \notin volumes')
          => \E p \in Procs :
               \/ /\ inv[p].cmd = "deploy"
                  /\ inv[p].pc = "cleanup_old_stack"
                  /\ Precedes(inv[p].log, "cutover", "verify_ok")
                  /\ Last(inv[p].log) = "verify_ok"
                  /\ s = inv[p].active_stack
                  /\ inv'[p].log = Append(inv[p].log, "cleanup_old")
               \/ /\ inv[p].cmd = "cleanup"
                  /\ \/ s = BLUE_STACK
                        /\ inv'[p].log = Append(inv[p].log, "down_blue")
                     \/ s = GREEN_STACK
                        /\ inv'[p].log = Append(inv[p].log, "down_green")]_vars

\* A rollback has stopped a slot, within a deploy and standalone, and the
\* slot's volumes are still there.
C32_Witness ==
    \E p \in Procs :
        /\ Finished(p)
        /\ Last(inv[p].log) = "stop"
        /\ inv[p].current_stack \notin networks
        /\ running[inv[p].current_stack] = {}
        /\ inv[p].current_stack \in volumes

\* C33: a standalone rollback whose discovery finds no active slot (no slot
\* shows its marker) ends with a nonzero status right after discovery;
\* routing is not repointed and no slot is stopped.
C33_RollbackWithoutActiveSlot ==
    \A p \in Rollbacks :
        (/\ "prerequisites_ok" \in Range(inv[p].log)
         /\ inv[p].pc # "rollback_cmd_active"
         /\ inv[p].pre.networks = {})
        => /\ Finished(p)
           /\ inv[p].exit # 0
           /\ inv[p].log = <<"prerequisites_ok", "no_active_stack">>
           /\ inv[p].active_stack = NoStack
           /\ Snapshot = inv[p].pre

\* Such a rollback has ended, with routing still at a slot that an earlier
\* cleanup decommissioned.
C33_Witness ==
    \E p \in Rollbacks :
        /\ Finished(p)
        /\ inv[p].exit = 1
        /\ Last(inv[p].log) = "no_active_stack"
        /\ routing # NoStack
        /\ networks = {}

\* The probes of the public health endpoint made inside deploy_to_stack.
HealthCheckEvents == {"health_check_ok", "health_check_failed"}

\* C34: in deploy the public health endpoint is probed once, after the
\* health loop has passed and before any cutover; when the probe fails the
\* deploy ends there with a nonzero status, no cutover is attempted, and
\* routing and the slot that was ACTIVE are as they were.
C34_HealthCheckGatesCutover ==
    \A p \in Deploys :
        /\ Count(inv[p].log, HealthCheckEvents) <= 1
        /\ \A e \in HealthCheckEvents : Precedes(inv[p].log, "healthy", e)
        /\ Precedes(inv[p].log, "health_check_ok", "cutover")
        /\ Precedes(inv[p].log, "health_check_ok", "cutover_failed")
        /\ "health_check_failed" \in Range(inv[p].log)
           => /\ Finished(p)
              /\ inv[p].exit # 0
              /\ Last(inv[p].log) = "health_check_failed"
              /\ routing = inv[p].pre.routing
              /\ \A X \in ActiveSet(inv[p].pre) :
                    /\ ActiveIn(Snapshot, X)
                    /\ running[X] = inv[p].pre.running[X]

\* The same, with the ACTIVE slot's services compared only when that slot was
\* not the deploy's target.
C34_ExceptWhenTargetIsActive ==
    \A p \in Deploys :
        /\ Count(inv[p].log, HealthCheckEvents) <= 1
        /\ \A e \in HealthCheckEvents : Precedes(inv[p].log, "healthy", e)
        /\ Precedes(inv[p].log, "health_check_ok", "cutover")
        /\ Precedes(inv[p].log, "health_check_ok", "cutover_failed")
        /\ "health_check_failed" \in Range(inv[p].log)
           => /\ Finished(p)
              /\ inv[p].exit # 0
              /\ Last(inv[p].log) = "health_check_failed"
              /\ routing = inv[p].pre.routing
              /\ \A X \in ActiveSet(inv[p].pre) :
                    /\ ActiveIn(Snapshot, X)
                    /\ X # inv[p].inactive_stack
                       => running[X] = inv[p].pre.running[X]

\* C35: the schema migration is run in the target slot's project, only after
\* the health loop has passed and before any cutover; whether it succeeds or
\* fails, the deploy goes on to the health check in the same state, so a
\* failed migration neither ends the deploy nor changes what follows.
C35_MigrationAfterHealthBeforeCutover ==
    [][\A p \in Procs :
          (inv[p].pc = "migrate" \/ inv'[p].log = Append(inv[p].log, "migrate"))
          /\ inv'[p] # inv[p]
          => /\ inv[p].cmd = "deploy"
             /\ inv[p].pc = "migrate"
             /\ Last(inv[p].log) = "healthy"
             /\ inv[p].COMPOSE_PROJECT_NAME = inv[p].inactive_stack
             /\ {"cutover", "cutover_failed"} \cap Range(inv[p].log) = {}
             /\ world' = world
             /\ [inv'[p] EXCEPT !.migrated = FALSE]
                  = [Goto(p, "health_check", "migrate") EXCEPT !.migrated = FALSE]]_vars

\* A deploy whose migration failed has made the cutover and ended with
\* status 0.
C35_Witness ==
    \E p \in Deploys :
        /\ Finished(p)
        /\ inv[p].exit = 0
        /\ ~inv[p].migrated
        /\ Precedes(inv[p].log, "migrate", "cutover")
        /\ "cutover" \in Range(inv[p].log)
        /\ ActiveIn(Snapshot, inv[p].inactive_stack)

\* C36: from a reset or cancel until the next START_SCAN (no flow is
\* selected) the demo state machine is in its initial IDLE state with every
\* field cleared; no completion of a capture pipeline still in flight, and
\* no SET_ERROR of one, moves it out of IDLE.
C36_IdleAfterReset ==
    ui.selectedFlow = Null => demo = initialState

\* The steps of the main script that belong to a command other than deploy.
NotDeploySteps == {"usage", "status", "cleanup_blue", "cleanup_green",
                   "rollback_cmd_active", "rollback_cmd_inactive"}

\* C37: a script called with a word that is no command prints the usage and
\* ends with a nonzero status, with slots and routing as they were; a script
\* called with no argument runs deploy: it takes deploy's branch of the case
\* statement and none of another command's steps.
C37_UsageAndDefaultCommand ==
    \A p \in Procs :
        /\ inv[p].arg = "other"
           => /\ Snapshot = inv[p].pre
              /\ \/ inv[p].pc = "usage" /\ inv[p].log = <<>>
                 \/ /\ Finished(p)
                    /\ inv[p].exit # 0
                    /\ inv[p].log = <<"usage">>
        /\ inv[p].arg = NoArg
           => /\ p \in Deploys
              /\ inv[p].pc \notin NotDeploySteps
              /\ inv[p].log # <<>> => inv[p].log[1] \in {"prerequisites_ok", "prerequisites_missing"}
              /\ "usage" \notin Range(inv[p].log)

\* A script called with no argument has carried out a whole deployment, from
\* one ACTIVE slot to the other.
C37_Witness ==
    \E p \in Procs :
        /\ inv[p].arg = NoArg
        /\ Finished(p)
        /\ inv[p].exit = 0
        /\ Precedes(inv[p].log, "cutover", "cleanup_old")
        /\ Last(inv[p].log) = "cleanup_old"
        /\ ActiveIn(inv[p].pre, inv[p].active_stack)
        /\ ActiveIn(Snapshot, inv[p].inactive_stack)

====
